---- MODULE Spec2Model ----
(***************************************************************************)
(* Model of git-llm-analyzer: app.py (main), src/file_processing.py        *)
(* (clone_github_repo, load_and_index_files, search_documents),            *)
(* src/questions.py (QuestionContext, ask_question) and src/utils.py       *)
(* (clean_and_tokenize, format_documents, format_user_question).           *)
(*                                                                         *)
(* Text is a sequence of lexemes (words, digit runs, whitespace runs).     *)
(* Python lists are 0-based; the sequences here are 1-based, so chunk i of *)
(* the code is element i+1 here.                                           *)
(* Scores are fixed-point integers: ONE stands for 1.0.  The calls into    *)
(* rank_bm25 and scikit-learn are modelled by integer score functions that *)
(* keep what the code relies on: one score per indexed chunk, in chunk     *)
(* order, zero where no query token occurs, BM25 unbounded above and       *)
(* cosine within [0, 1].  The library calls are taken to succeed on every  *)
(* input they are given; exceptions come from the loaders, from the        *)
(* language model and from the Python code of the repository itself.       *)
(***************************************************************************)
EXTENDS Integers, Sequences, FiniteSets, TLC

\* ------------------------------------------------------------------ bounds
\* chunk_size / chunk_overlap of the splitter, counted in lexemes
CHUNK_SIZE == 2
CHUNK_OVERLAP == 1
\* largest corpus (in chunks) the loader outcomes may add up to
MaxChunks == 3
\* questions asked in one interactive session
MaxQuestions == 2

\* ------------------------------------------------------- program constants
\* n_results default of search_documents, and the value ask_question passes
N_RESULTS == 5
\* weights of the two score arrays, in tenths (0.5 and 0.5)
BM25_WEIGHT == 5
COSINE_WEIGHT == 5

\* Python's None (a record, so that it compares with the objects it stands in for)
None == [none |-> TRUE]

Min(a, b) == IF a <= b THEN a ELSE b
Max(a, b) == IF a >= b THEN a ELSE b
Range(s) == {s[k] : k \in 1..Len(s)}

\* ------------------------------------------------------------ src/utils.py
\* str.lower() on one lexeme
Lower(lex) ==
  CASE lex = "Fox" -> "fox"
    [] lex = "Sea" -> "sea"
    [] lex = "EXIT()" -> "exit()"
    [] OTHER -> lex

\* what the regular expressions and the tokenizer leave of one lexeme:
\* whitespace runs, digit runs, tags and bracketed asides vanish, words are
\* lowercased
TokensOfLexeme(lex) ==
  IF lex \in {"  ", "42", "<b>", "[x]"} THEN <<>> ELSE <<Lower(lex)>>

RECURSIVE clean_and_tokenize(_)
clean_and_tokenize(text) ==
  IF text = <<>> THEN <<>>
  ELSE TokensOfLexeme(Head(text)) \o clean_and_tokenize(Tail(text))

\* re.sub(r"\s+", " ", question).strip(): whitespace runs are dropped from
\* both ends and collapsed in between (a lexeme sequence has the single
\* separating blank implicit)
RECURSIVE format_user_question(_)
format_user_question(question) ==
  IF question = <<>> THEN <<>>
  ELSE IF Head(question) = "  " THEN format_user_question(Tail(question))
  ELSE <<Head(question)>> \o format_user_question(Tail(question))

\* os.path.basename of a path given as its components
basename(path) == IF path = <<>> THEN "" ELSE path[Len(path)]

\* "\n".join(f"{i+1}. {basename(source)}: {page_content}" ...): one line per
\* document, numbered from 1
format_documents(docs) ==
  [k \in 1..Len(docs) |->
     [number |-> k, name |-> basename(docs[k].source),
      text |-> docs[k].page_content]]

\* ------------------------------------------------- src/file_processing.py
\* the extensions list, shortened to three entries that cover both loader
\* branches (DirectoryLoader and NotebookLoader)
extensions == <<"txt", "py", "ipynb">>

repo_path == <<"tmp", "repo">>

\* os.path.relpath(file_path, repo_path) for a file below repo_path
relpath(file_path, base) == SubSeq(file_path, Len(base) + 1, Len(file_path))

\* file contents a loader may deliver
Texts ==
  { <<>>, <<"Fox">>, <<"sea", "the", "Fox">>, <<"42">> }

\* a file name with the given extension
FileName(ext) ==
  CASE ext = "txt" -> "notes.txt"
    [] ext = "py" -> "main.py"
    [] OTHER -> "demo.ipynb"

\* the absolute path a loader reports for the k-th file of an extension
FilePath(ext, k) ==
  repo_path \o (IF k = 1 THEN <<FileName(ext)>> ELSE <<"sub", FileName(ext)>>)

\* RecursiveCharacterTextSplitter.split_documents for one document: windows
\* of at most CHUNK_SIZE lexemes, consecutive windows sharing CHUNK_OVERLAP
\* lexemes; an empty document gives no chunk
SplitStep == Max(1, CHUNK_SIZE - CHUNK_OVERLAP)

RECURSIVE SplitText(_)
SplitText(text) ==
  IF text = <<>> THEN <<>>
  ELSE IF Len(text) <= CHUNK_SIZE THEN <<text>>
  ELSE <<SubSeq(text, 1, CHUNK_SIZE)>>
         \o SplitText(SubSeq(text, SplitStep + 1, Len(text)))

\* lines 115-118: the chunks of one document inherit file_id and source
split_documents_of(doc) ==
  LET parts == SplitText(doc.page_content)
  IN [k \in 1..Len(parts) |->
        [page_content |-> parts[k], source |-> doc.source,
         file_id |-> doc.file_id]]

\* lines 113-120: the chunks of all recorded documents, in dict order
RECURSIVE SplitAll(_)
SplitAll(docs) ==
  IF docs = <<>> THEN <<>>
  ELSE split_documents_of(Head(docs)) \o SplitAll(Tail(docs))

\* BM25Okapi(tokenized_documents): the index keeps the tokenized corpus
BM25Okapi(tokenized_documents) == [corpus |-> tokenized_documents]

\* mutant of BuildIndex: chunks without tokens are left out of the index
BuildIndex_SkipEmpty(split_documents) ==
  IF split_documents /= <<>>
  THEN BM25Okapi(SelectSeq(
         [k \in 1..Len(split_documents) |->
            clean_and_tokenize(split_documents[k].page_content)],
         LAMBDA tokens : tokens /= <<>>))
  ELSE None

\* lines 122-127
BuildIndex(split_documents) ==
  IF split_documents /= <<>>
  THEN BM25Okapi([k \in 1..Len(split_documents) |->
                    clean_and_tokenize(split_documents[k].page_content)])
  ELSE None

\* line 132
Filenames(split_documents) ==
  [k \in 1..Len(split_documents) |-> split_documents[k].source]

\* ---------------------------------------------------- search_documents
\* fixed-point representation of the score 1.0
ONE == 4

\* number of occurrences of token q in a token sequence
TermFrequency(q, tokens) == Cardinality({k \in 1..Len(tokens) : tokens[k] = q})

RECURSIVE SumOver(_, _)
SumOver(f, S) ==
  IF S = {} THEN 0
  ELSE LET x == CHOOSE y \in S : TRUE IN f[x] + SumOver(f, S \ {x})

\* index.get_scores(query_tokens), line 149: one score per document of the
\* indexed corpus, in corpus order; every query token adds to the score of
\* the documents it occurs in, an empty or unmatched query scores zero
get_scores(idx, query_tokens) ==
  [i \in 1..Len(idx.corpus) |->
     SumOver([k \in 1..Len(query_tokens) |->
                ONE * TermFrequency(query_tokens[k], idx.corpus[i])],
             1..Len(query_tokens))]

\* stop_words="english", restricted to the lexemes of the model
StopWords == {"the"}

\* the analyzer of the TfidfVectorizer (lines 152-159): lowercase, tokenize
\* with clean_and_tokenize, drop stop words; the result is the term set
TfidfTerms(text) ==
  Range(clean_and_tokenize([k \in 1..Len(text) |-> Lower(text[k])])) \ StopWords

\* lines 160-166: fit on the documents, transform the query, cosine of the
\* query vector with every document vector; terms outside the fitted
\* vocabulary are ignored and a zero vector has similarity zero
cosine_similarity(query, docs) ==
  LET vocabulary == UNION {TfidfTerms(docs[k].page_content) : k \in 1..Len(docs)}
      q == TfidfTerms(query) \cap vocabulary
  IN [i \in 1..Len(docs) |->
        LET d == TfidfTerms(docs[i].page_content)
            common == Cardinality(q \cap d)
        IN IF q = {} \/ d = {} THEN 0
           ELSE (ONE * common * common) \div (Cardinality(q) * Cardinality(d))]

\* mutant of CombinedScores: unequal weights, 0.7 and 0.3
CombinedScores_Skewed(bm25_scores, cosine_sim_scores) ==
  [i \in 1..Len(bm25_scores) |->
     bm25_scores[i] * (BM25_WEIGHT + 2) + cosine_sim_scores[i] * (COSINE_WEIGHT - 2)]

\* line 169, in units of 1/(10 * ONE)
CombinedScores(bm25_scores, cosine_sim_scores) ==
  [i \in 1..Len(bm25_scores) |->
     bm25_scores[i] * BM25_WEIGHT + cosine_sim_scores[i] * COSINE_WEIGHT]

\* all orderings of the elements of S
RECURSIVE Orderings(_)
Orderings(S) ==
  IF S = {} THEN {<<>>}
  ELSE UNION {{<<x>> \o p : p \in Orderings(S \ {x})} : x \in S}

\* combined_scores.argsort()[::-1], line 173: the indices by score, highest
\* first; the default sort is not stable, so equal scores may come out in
\* either order
Argsorts(combined_scores) ==
  {p \in Orderings(1..Len(combined_scores)) :
     \A k \in 1..(Len(p) - 1) :
        combined_scores[p[k]] >= combined_scores[p[k + 1]]}

\* mutant of SetToList: the indices keep the order argsort gave them
SetToList_Insertion(indices) == indices

\* list(set(indices)), lines 172-174: a CPython set of small non-negative
\* integers stores i in slot hash(i) = i of a table larger than the number of
\* elements, and iteration walks the slots, so the list comes out in
\* ascending index order whatever the insertion order was
RECURSIVE SetToList(_)
SetToList(indices) ==
  LET S == Range(indices)
  IN IF S = {} THEN <<>>
     ELSE LET m == CHOOSE x \in S : \A y \in S : x <= y
          IN <<m>> \o SetToList(SelectSeq(indices, LAMBDA z : z /= m))

\* mutant of Truncate: the slice keeps one element too many
Truncate_OneMore(s, n) == SubSeq(s, 1, Min(n + 1, Len(s)))

\* [:n_results] for n_results >= 0
Truncate(s, n) == SubSeq(s, 1, Min(n, Len(s)))

NoSearch ==
  [status |-> "none", query |-> <<>>, n_results |-> 0, L |-> 0,
   index_none |-> FALSE, bm25_scores |-> <<>>, cosine_sim_scores |-> <<>>,
   combined_scores |-> <<>>, top |-> <<>>, result |-> <<>>]

\* search_documents(query, index, documents, n_results), lines 148-176: the
\* set of outcomes, one per order argsort may give to equal scores.  A None
\* index has no get_scores (AttributeError at line 149); arrays of different
\* length do not add up (ValueError at line 169).
search_documents(query, idx, docs, n_results) ==
  LET raised == [NoSearch EXCEPT !.status = "raised", !.query = query,
                                 !.n_results = n_results, !.L = Len(docs),
                                 !.index_none = (idx = None)]
  IN IF idx = None THEN {raised}
     ELSE LET query_tokens == clean_and_tokenize(query)
              bm25_scores == get_scores(idx, query_tokens)
              cosine_sim_scores == cosine_similarity(query, docs)
          IN IF Len(bm25_scores) /= Len(cosine_sim_scores)
             THEN {[raised EXCEPT !.bm25_scores = bm25_scores,
                                  !.cosine_sim_scores = cosine_sim_scores]}
             ELSE LET combined_scores ==
                        CombinedScores(bm25_scores, cosine_sim_scores)
                  IN {LET top == Truncate(SetToList(order), n_results)
                      IN [status |-> "returned", query |-> query,
                          n_results |-> n_results, L |-> Len(docs),
                          index_none |-> FALSE,
                          bm25_scores |-> bm25_scores,
                          cosine_sim_scores |-> cosine_sim_scores,
                          combined_scores |-> combined_scores,
                          top |-> top,
                          result |-> [k \in 1..Len(top) |-> docs[top[k]]]]
                      : order \in Argsorts(combined_scores)}

\* ------------------------------------------------------------------ state
VARIABLES
  pc,                   \* where main is
  extIdx,               \* position of the loop over extensions (from 1)
  documents_dict,       \* the recorded documents, in insertion order
  file_type_counts,     \* extension -> number of loaded documents
  index,                \* the BM25 index, or None
  documents,            \* split_documents as returned to main
  filenames,            \* the sources of the chunks as returned to main
  context,              \* the QuestionContext, or None before it is built
  conversation_history, \* main's local: the question/answer pairs so far
  user_question,        \* main's local: the last line read from the user
  llmInput,             \* the input of the last llm_chain.invoke, or None
  lastSearch,           \* the last call of search_documents
  prevSearch,           \* the call of search_documents before that
  printed               \* the messages printed so far

vars ==
  <<pc, extIdx, documents_dict, file_type_counts, index, documents, filenames,
    context, conversation_history, user_question, llmInput, lastSearch,
    prevSearch, printed>>

loadVars == <<documents_dict, file_type_counts, index, documents, filenames>>
sessionVars ==
  <<context, conversation_history, user_question, llmInput, lastSearch,
    prevSearch>>

\* ----------------------------------------------------------- environment
\* what loader.load() delivers for one extension
Batches ==
  {<<>>} \cup {<<t>> : t \in Texts} \cup {<< <<"42">>, <<"Fox">> >>}

\* an iteration of the loop either completes, or the loader raises, or
\* recording the last loaded document raises (lines 99-106)
LoaderOutcomes ==
  [loaded : Batches, raises : {"no"}]
    \cup {[loaded |-> <<>>, raises |-> "load"]}
    \cup [loaded : {<< <<"Fox">> >>, << <<"42">>, <<"Fox">> >>},
          raises : {"record"}]

\* query strings: a plain word, one with a leading blank run and a stop
\* word, and one that leaves no token
Queries == { <<"Fox">>, <<"  ", "the", "Fox">>, <<"42">> }

\* lines the user may type at the prompt
UserInputs == Queries \cup { <<"exit()">>, <<"EXIT()">> }

\* values of n_results a direct caller passes: none, fewer than, as many as
\* and more than the corpus holds
NResults == {0, 1, 2, N_RESULTS}

\* what llm_chain.invoke may do: return a text, or raise
LlmOutcomes == {"answer", "raise"}

LowerText(text) == [k \in 1..Len(text) |-> Lower(text[k])]

\* ------------------------------------------------------------------- Init
Init ==
  /\ pc = "clone"
  /\ extIdx = 1
  /\ documents_dict = <<>>
  /\ file_type_counts = <<>>
  /\ index = None
  /\ documents = <<>>
  /\ filenames = <<>>
  /\ context = None
  /\ conversation_history = <<>>
  /\ user_question = <<>>
  /\ llmInput = None
  /\ lastSearch = NoSearch
  /\ prevSearch = NoSearch
  /\ printed = {}

\* ---------------------------------------------------------------- actions
\* app.py 32-36 and 111-112 with clone_github_repo (file_processing.py 26-31)
CloneRepo(ok) ==
  /\ pc = "clone"
  /\ IF ok
     THEN /\ pc' = "load"
          /\ printed' = printed
     ELSE /\ pc' = "done"
          /\ printed' = printed \cup {<<"Failed to clone the repository.", "">>}
  /\ UNCHANGED <<extIdx, loadVars, sessionVars>>

\* the documents of one batch as lines 99-106 record them
Recorded(ext, texts, first_id) ==
  [k \in 1..Len(texts) |->
     [page_content |-> texts[k],
      source |-> relpath(FilePath(ext, k), repo_path),
      file_id |-> first_id + k]]

\* mutant of LoadExtension: an exception leaves the loop and the function
LoadExtension_Abort(outcome) ==
  /\ pc = "load"
  /\ extIdx <= Len(extensions)
  /\ IF outcome.raises /= "no"
     THEN /\ pc' = "aborted"
          /\ UNCHANGED <<extIdx, documents_dict, file_type_counts, printed>>
     ELSE /\ documents_dict' =
               documents_dict
                 \o Recorded(extensions[extIdx], outcome.loaded, Len(documents_dict))
          /\ Len(SplitAll(documents_dict')) <= MaxChunks
          /\ file_type_counts' =
               IF outcome.loaded /= <<>>
               THEN Append(file_type_counts,
                           <<extensions[extIdx], Len(outcome.loaded)>>)
               ELSE file_type_counts
          /\ extIdx' = extIdx + 1
          /\ pc' = "load"
          /\ printed' = printed
  /\ UNCHANGED <<index, documents, filenames, sessionVars>>

\* one iteration of the loop over the extensions, lines 82-109
LoadExtension(outcome) ==
  LET ext == extensions[extIdx]
      kept == IF outcome.raises = "record"
              THEN SubSeq(outcome.loaded, 1, Len(outcome.loaded) - 1)
              ELSE outcome.loaded
  IN /\ pc = "load"
     /\ extIdx <= Len(extensions)
     /\ documents_dict' =
          documents_dict \o Recorded(ext, kept, Len(documents_dict))
     /\ Len(SplitAll(documents_dict')) <= MaxChunks
     /\ file_type_counts' =
          IF outcome.loaded /= <<>>
          THEN Append(file_type_counts, <<ext, Len(outcome.loaded)>>)
          ELSE file_type_counts
     /\ printed' =
          IF outcome.raises /= "no"
          THEN printed \cup {<<"Error loading files with pattern", ext>>}
          ELSE printed
     /\ extIdx' = extIdx + 1
     /\ pc' = "load"
     /\ UNCHANGED <<index, documents, filenames, sessionVars>>

\* the rest of load_and_index_files, lines 111-133
SplitAndIndex ==
  /\ pc = "load"
  /\ extIdx > Len(extensions)
  /\ documents' = SplitAll(documents_dict)
  /\ index' = BuildIndex(documents')
  /\ filenames' = Filenames(documents')
  /\ pc' = "loaded"
  /\ UNCHANGED <<extIdx, documents_dict, file_type_counts, sessionVars, printed>>

\* QuestionContext.__init__, questions.py 47-55
QuestionContext(idx, docs, history, counts, names) ==
  [index |-> idx, documents |-> docs, conversation_history |-> history,
   file_type_counts |-> counts, filenames |-> names]

\* mutant of MainAfterLoad: the check for a None index is missing
MainAfterLoad_NoCheck ==
  /\ pc = "loaded"
  /\ conversation_history' = <<>>
  /\ context' = QuestionContext(index, documents, conversation_history',
                                file_type_counts, filenames)
  /\ pc' = "prompt"
  /\ UNCHANGED <<extIdx, loadVars, user_question, llmInput, lastSearch,
                 prevSearch, printed>>

\* app.py 40-88: leave on an empty corpus, else set up the session
MainAfterLoad ==
  /\ pc = "loaded"
  /\ IF index = None
     THEN /\ printed' =
               printed \cup {<<"No documents were found to index. Exiting.", "">>}
          /\ pc' = "exited"
          /\ UNCHANGED <<context, conversation_history>>
     ELSE /\ conversation_history' = <<>>
          /\ context' = QuestionContext(index, documents, conversation_history',
                                        file_type_counts, filenames)
          /\ pc' = "prompt"
          /\ printed' = printed
  /\ UNCHANGED <<extIdx, loadVars, user_question, llmInput, lastSearch,
                 prevSearch>>

\* app.py 91-98: the user types exit()
UserExit(line) ==
  /\ pc = "prompt"
  /\ LowerText(line) = <<"exit()">>
  /\ user_question' = line
  /\ pc' = "done"
  /\ UNCHANGED <<extIdx, loadVars, context, conversation_history, llmInput,
                 lastSearch, prevSearch, printed>>

\* app.py 91-109 with ask_question (questions.py 68-89): one question
AskQuestion(line, llm) ==
  /\ pc = "prompt"
  /\ LowerText(line) /= <<"exit()">>
  /\ Len(conversation_history) < MaxQuestions
  /\ user_question' = format_user_question(line)
  /\ \E s \in search_documents(user_question', context.index,
                               context.documents, N_RESULTS) :
       /\ lastSearch' = s
       /\ prevSearch' = lastSearch
       /\ llmInput' =
            IF s.status = "raised" THEN llmInput
            ELSE [question |-> user_question',
                  conversation_history |-> context.conversation_history,
                  numbered_documents |-> format_documents(s.result),
                  file_type_counts |-> context.file_type_counts,
                  filenames |-> context.filenames]
       /\ IF s.status = "raised" \/ llm = "raise"
          THEN /\ printed' = printed \cup {<<"An error occurred", "">>}
               /\ pc' = "done"
               /\ UNCHANGED conversation_history
          ELSE /\ conversation_history' =
                    Append(conversation_history,
                           [question |-> user_question', answer |-> llm])
               /\ pc' = "prompt"
               /\ printed' = printed
  /\ UNCHANGED <<extIdx, loadVars, context>>

\* a direct call of search_documents on what load_and_index_files returned
ApiSearch(query, n_results) ==
  /\ pc = "loaded"
  /\ \E s \in search_documents(query, index, documents, n_results) :
       /\ lastSearch' = s
       /\ prevSearch' = lastSearch
  /\ UNCHANGED <<pc, extIdx, loadVars, context, conversation_history,
                 user_question, llmInput, printed>>

Load ==
  \/ \E ok \in BOOLEAN : CloneRepo(ok)
  \/ \E outcome \in LoaderOutcomes : LoadExtension(outcome)
  \/ SplitAndIndex

\* the program: main
Next ==
  \/ Load
  \/ MainAfterLoad
  \/ \E line \in UserInputs : UserExit(line)
  \/ \E line \in UserInputs, llm \in LlmOutcomes : AskQuestion(line, llm)

Spec == Init /\ [][Next]_vars

\* the library: load_and_index_files followed by calls of search_documents
NextApi ==
  \/ Load
  \/ \E query \in Queries, n_results \in NResults :
       ApiSearch(query, n_results)

SpecApi == Init /\ [][NextApi]_vars

\* ----------------------------------------------------------------- claims
Returned(s) == s.status = "returned"
Called(s) == s.status /= "none"
ErrorPrinted == <<"An error occurred", "">> \in printed
CloneFailed == <<"Failed to clone the repository.", "">> \in printed
EmptyCorpusReported ==
  <<"No documents were found to index. Exiting.", "">> \in printed
LoadErrorPrinted(ext) == <<"Error loading files with pattern", ext>> \in printed
AfterLoad == pc \in {"loaded", "prompt", "exited"} \/ (pc = "done" /\ ~CloneFailed)

MaxOf(scores) == CHOOSE m \in Range(scores) : \A x \in Range(scores) : x <= m
MinOf(scores) == CHOOSE m \in Range(scores) : \A x \in Range(scores) : m <= x
HasTie(scores) ==
  \E i, j \in 1..Len(scores) : i /= j /\ scores[i] = scores[j]

\* C1: for a non-empty corpus and n_results >= 1, search_documents returns
\* the n_results chunks of highest combined score, highest first: no
\* returned chunk scores below a chunk left out, and each returned chunk
\* scores at least as high as the one after it.
C1_TopRankedDescending ==
  (Called(lastSearch) /\ lastSearch.L >= 1 /\ lastSearch.n_results >= 1) =>
     /\ Returned(lastSearch)
     /\ \A k \in 1..(Len(lastSearch.top) - 1) :
          lastSearch.combined_scores[lastSearch.top[k]]
            >= lastSearch.combined_scores[lastSearch.top[k + 1]]
     /\ \A i \in Range(lastSearch.top) :
          \A j \in (1..lastSearch.L) \ Range(lastSearch.top) :
             lastSearch.combined_scores[i] >= lastSearch.combined_scores[j]

\* the result of call s has exactly min(N, L) chunks, no chunk index twice
ExactlyMinDistinct(s) ==
  /\ Returned(s)
  /\ Len(s.result) = Min(s.n_results, s.L)
  /\ Len(s.top) = Len(s.result)
  /\ Len(s.result) <= s.n_results
  /\ Range(s.top) \subseteq 1..s.L
  /\ \A k, m \in 1..Len(s.top) : k /= m => s.top[k] /= s.top[m]
  /\ \A k \in 1..Len(s.top) : s.result[k] = documents[s.top[k]]

C4_EmptyCorpusSearchReturnsEmpty ==
  (Called(lastSearch) /\ lastSearch.L = 0) =>
     (Returned(lastSearch) /\ lastSearch.result = <<>>)

\* the 0.5/0.5 average of the two arrays after dividing each by its maximum
AverageOfMaxNormalised(s) ==
  LET db == IF MaxOf(s.bm25_scores) > 0 THEN MaxOf(s.bm25_scores) ELSE 1
      dc == IF MaxOf(s.cosine_sim_scores) > 0
            THEN MaxOf(s.cosine_sim_scores) ELSE 1
  IN \A i \in 1..s.L :
        2 * s.combined_scores[i] * db * dc
          = 10 * ONE * (s.bm25_scores[i] * dc + s.cosine_sim_scores[i] * db)

\* the 0.5/0.5 average of the two arrays after min-max scaling of each
AverageOfMinMaxNormalised(s) ==
  LET lb == MinOf(s.bm25_scores)
      lc == MinOf(s.cosine_sim_scores)
      rb == IF MaxOf(s.bm25_scores) > lb THEN MaxOf(s.bm25_scores) - lb ELSE 1
      rc == IF MaxOf(s.cosine_sim_scores) > lc
            THEN MaxOf(s.cosine_sim_scores) - lc ELSE 1
  IN \A i \in 1..s.L :
        2 * s.combined_scores[i] * rb * rc
          = 10 * ONE * ((s.bm25_scores[i] - lb) * rc
                          + (s.cosine_sim_scores[i] - lc) * rb)

\* C7 as stated: the combined score of every chunk is the 0.5/0.5 average
\* of its lexical and its vector score after each array has been normalized
\* on its own (by its maximum, or by its minimum and maximum).
C7_AverageOfNormalised ==
  Returned(lastSearch) =>
     (AverageOfMaxNormalised(lastSearch)
        \/ AverageOfMinMaxNormalised(lastSearch))

\* C7 amended: the combined score of every chunk is the 0.5/0.5 average of
\* its raw BM25 score and its raw cosine score, the arrays being those that
\* get_scores and cosine_similarity return, with no normalization.
C7_AverageOfRaw ==
  Returned(lastSearch) =>
     LET bm25 == get_scores(index, clean_and_tokenize(lastSearch.query))
         cosine == cosine_similarity(lastSearch.query, documents)
     IN \A i \in 1..lastSearch.L :
           2 * lastSearch.combined_scores[i] = 10 * (bm25[i] + cosine[i])

\* C7 witness: a search in which a BM25 score lies above 1.0, the most a
\* cosine can be, and the two arrays differ
C7_Witness ==
  /\ Returned(lastSearch)
  /\ \E i \in 1..lastSearch.L :
        /\ lastSearch.bm25_scores[i] > ONE
        /\ lastSearch.cosine_sim_scores[i] > 0
        /\ lastSearch.cosine_sim_scores[i] <= ONE

\* C9: two calls of search_documents with the same index, chunks, query and
\* n_results have the same outcome: the same scores, the same chunks in the
\* same order and the same text from format_documents, ties in the combined
\* score included.
C9_SameQuerySameResult ==
  (/\ Called(prevSearch) /\ Called(lastSearch)
   /\ prevSearch.query = lastSearch.query
   /\ prevSearch.n_results = lastSearch.n_results) =>
     /\ prevSearch = lastSearch
     /\ format_documents(prevSearch.result) = format_documents(lastSearch.result)

\* C9 witness: the same query run twice over chunks with equal combined
\* scores, fewer results asked for than there are chunks
C9_Witness ==
  /\ Returned(prevSearch) /\ Returned(lastSearch)
  /\ prevSearch.query = lastSearch.query
  /\ prevSearch.n_results = lastSearch.n_results
  /\ lastSearch.n_results >= 1
  /\ lastSearch.n_results < lastSearch.L
  /\ HasTie(lastSearch.combined_scores)

IsPrefix(s, t) == Len(s) <= Len(t) /\ SubSeq(t, 1, Len(s)) = s

\* C3: load_and_index_files returns index None exactly when no chunk was
\* produced; main then reports the empty corpus and ends, so the prompt is
\* never shown and ask_question / search_documents never called with a None
\* index or an empty chunk list.
C3_NoSessionOnEmptyCorpus ==
  /\ AfterLoad => ((index = None) <=> (documents = <<>>))
  /\ (AfterLoad /\ pc /= "loaded" /\ index = None) =>
        (pc = "exited" /\ EmptyCorpusReported /\ context = None)
  /\ pc = "prompt" =>
        /\ context /= None
        /\ context.index /= None
        /\ context.documents /= <<>>
  /\ Called(lastSearch) => (~lastSearch.index_none /\ lastSearch.L >= 1)
  /\ llmInput /= None => context.index /= None

\* C3 witness: files were loaded, none of them gave a chunk, and main has
\* reported the empty corpus and left
C3_Witness ==
  /\ pc = "exited"
  /\ documents_dict /= <<>>
  /\ documents = <<>>
  /\ EmptyCorpusReported

\* C5: an exception in the iteration of one extension is reported and the
\* loop goes on to the next extension, so every extension is tried; no
\* document recorded so far is lost, and all recorded documents are chunked
\* and indexed when the loop is over.
C5_LoadFailureSkipped ==
  [][/\ (pc = "load" /\ extIdx <= Len(extensions)) =>
          /\ pc' = "load"
          /\ extIdx' = extIdx + 1
          /\ IsPrefix(documents_dict, documents_dict')
          /\ (printed' /= printed =>
                <<"Error loading files with pattern", extensions[extIdx]>>
                  \in printed')
     /\ (pc = "load" /\ extIdx > Len(extensions)) =>
          /\ pc' = "loaded"
          /\ \A d \in 1..Len(documents_dict) :
               \A part \in Range(SplitText(documents_dict[d].page_content)) :
                  \E c \in 1..Len(documents') :
                     /\ documents'[c].file_id = documents_dict[d].file_id
                     /\ documents'[c].page_content = part
          /\ index' /= None =>
               \A c \in 1..Len(documents') :
                  index'.corpus[c] = clean_and_tokenize(documents'[c].page_content)
    ]_vars

\* C5 witness: loading "py" failed, and the chunks of a "txt" document
\* recorded before and of an "ipynb" document recorded after are indexed
C5_Witness ==
  /\ pc = "loaded"
  /\ LoadErrorPrinted("py")
  /\ index /= None
  /\ \E c \in 1..Len(documents) : basename(documents[c].source) = "notes.txt"
  /\ \E c \in 1..Len(documents) : basename(documents[c].source) = "demo.ipynb"

\* C6: against a non-empty corpus no question makes search raise, and no
\* failing or low-signal question ends the session: after a question the
\* loop goes on, and the session ends only when the user types exit().
C6_QuestionNeverEndsSession ==
  Called(lastSearch) =>
     /\ Returned(lastSearch)
     /\ pc = "done" => LowerText(user_question) = <<"exit()">>

\* C8: in every session state after load_and_index_files the BM25 index, the
\* chunk list and the filenames list describe the same chunks in the same
\* order, the two score arrays of a search have one entry per chunk with
\* entry i computed from chunk i, and none of the three is changed again.
Aligned ==
  /\ (AfterLoad /\ index /= None) =>
        /\ Len(index.corpus) = Len(documents)
        /\ \A i \in 1..Len(documents) :
              index.corpus[i] = clean_and_tokenize(documents[i].page_content)
  /\ AfterLoad =>
        /\ Len(filenames) = Len(documents)
        /\ \A i \in 1..Len(documents) : filenames[i] = documents[i].source
  /\ context /= None =>
        /\ context.index = index
        /\ context.documents = documents
        /\ context.filenames = filenames
  /\ Called(lastSearch) =>
        /\ Returned(lastSearch)
        /\ Len(lastSearch.bm25_scores) = Len(documents)
        /\ Len(lastSearch.cosine_sim_scores) = Len(documents)
        /\ \A i \in 1..Len(documents) :
              /\ lastSearch.bm25_scores[i]
                   = get_scores(
                       BM25Okapi(<<clean_and_tokenize(documents[i].page_content)>>),
                       clean_and_tokenize(lastSearch.query))[1]
              /\ (lastSearch.cosine_sim_scores[i] > 0 =>
                    TfidfTerms(lastSearch.query)
                      \cap TfidfTerms(documents[i].page_content) /= {})

C8_ScoresAlignedWithChunks ==
  /\ []Aligned
  /\ [][AfterLoad => UNCHANGED <<index, documents, filenames>>]_vars

\* C8 witness: a second search over a corpus of several chunks of which one
\* has no token at all
C8_Witness ==
  /\ Returned(lastSearch) /\ Returned(prevSearch)
  /\ Len(documents) >= 2
  /\ \E i \in 1..Len(documents) : index.corpus[i] = <<>>
  /\ \E i \in 1..Len(documents) : lastSearch.bm25_scores[i] > 0

\* C10: the conversation history that ask_question hands to the language
\* model holds every question answered so far in the session with its
\* answer, in order (and is empty only for the first question).
C10_HistoryHandedToModel ==
  [][(pc = "prompt" /\ lastSearch' /= lastSearch /\ Returned(lastSearch')) =>
        llmInput'.conversation_history = conversation_history]_vars

====
